---- MODULE Spec2Model ----
(***************************************************************************)
(* A model of backend/routes/generate_xls.py: one run of the script, from  *)
(* the argument check of the __main__ block through generate_xls to the    *)
(* process exit.  One action per statement of the script; the input file, *)
(* the xlwt sheet and the output path are the state.                       *)
(***************************************************************************)
EXTENDS Integers, Sequences, FiniteSets, TLC

\* Bounds of the explored inputs.
MaxRows == 3
MaxCells == 3

VARIABLES
    input,      \* the command line and the input file: [argc, readable, json]
    pc,         \* the statement the run is at
    inTry,      \* control is inside the try body of the __main__ block
    exc,        \* the exception being propagated: [type, msg]
    failure,    \* history: the statement that raised the run's first exception
    fOpen,      \* the input file handle f is open
    data,       \* the parsed document
    rows,       \* data.get('rows', [])
    workbook,   \* the workbook and its sheet exist
    sheet,      \* the sheet's cells: <<row, col>> -> text
    row_idx,    \* counter of the outer enumerate
    col_idx,    \* counter of the inner enumerate
    writes,     \* history: the coordinates passed to sheet.write, in order
    saves,      \* history: the number of calls of workbook.save
    outFile,    \* what the run has put at the output path
    stdout,     \* lines printed to standard output
    stderr,     \* lines printed to standard error
    exitCode    \* the process's exit status, -1 while it runs

vars == <<input, pc, inTry, exc, failure, fOpen, data, rows, workbook, sheet,
          row_idx, col_idx, writes, saves, outFile, stdout, stderr, exitCode>>

----------------------------------------------------------------------------
\* JSON scalars, as json.load returns them.

JNull == [k |-> "null", b |-> FALSE, n |-> 0, s |-> ""]
JBool(x) == [k |-> "bool", b |-> x, n |-> 0, s |-> ""]
JInt(x) == [k |-> "int", b |-> FALSE, n |-> x, s |-> ""]
JStr(x) == [k |-> "str", b |-> FALSE, n |-> 0, s |-> x]

\* The scalars explored: null, a boolean, two integers, a string.  Floats and
\* a rows value that is no list are not explored.
Cells == {JNull, JBool(TRUE), JInt(12345), JInt(-30), JStr("Alice")}

\* str() of a Python int: decimal digits, a minus sign when negative.
Digit(d) ==
    CASE d = 0 -> "0" [] d = 1 -> "1" [] d = 2 -> "2" [] d = 3 -> "3"
      [] d = 4 -> "4" [] d = 5 -> "5" [] d = 6 -> "6" [] d = 7 -> "7"
      [] d = 8 -> "8" [] d = 9 -> "9"

RECURSIVE NatStr(_)
NatStr(n) == IF n < 10 THEN Digit(n) ELSE NatStr(n \div 10) \o Digit(n % 10)

IntStr(n) == IF n < 0 THEN "-" \o NatStr(-n) ELSE NatStr(n)

\* str(cell_value) on a value json.load produced.
PyStr(v) ==
    CASE v.k = "null" -> "None"
      [] v.k = "bool" -> (IF v.b THEN "True" ELSE "False")
      [] v.k = "int" -> IntStr(v.n)
      [] v.k = "str" -> v.s

\* Variant without the None case of line 44.
CellTextNoneAsStr(v) == PyStr(v)

\* Lines 44-47: None becomes the empty string, anything else its str().
CellText(v) == IF v.k = "null" THEN "" ELSE PyStr(v)

----------------------------------------------------------------------------
\* The inputs of a run.

\* A row of the document: a JSON array of scalars, or (iter = FALSE) a JSON
\* number standing where a row should be, which enumerate() cannot iterate.
ListRow(cs) == [iter |-> TRUE, cells |-> cs]
NonIterRow == [iter |-> FALSE, cells |-> <<>>]

\* The lists of exactly n scalars.
RECURSIVE CellSeqs(_)
CellSeqs(n) ==
    IF n = 0 THEN {<<>>} ELSE {<<c>> \o t : c \in Cells, t \in CellSeqs(n - 1)}

\* The rows a document can hold with room for n more cells.
RowChoices(n) ==
    {NonIterRow} \cup UNION {{ListRow(cs) : cs \in CellSeqs(m)} : m \in 0..n}

\* A parsed JSON document: an object (with or without a "rows" key, with or
\* without other keys) or some other JSON value.
ObjectDoc(h, rs, e) == [kind |-> "object", hasRows |-> h, rows |-> rs, extra |-> e]
OtherDoc == [kind |-> "other", hasRows |-> FALSE, rows |-> <<>>, extra |-> FALSE]
NoDoc == [kind |-> "none", hasRows |-> FALSE, rows |-> <<>>, extra |-> FALSE]

\* The content of the input file: JSON text and the document it denotes, or
\* text that is not JSON.
ValidJson(d) == [valid |-> TRUE, doc |-> d]
InvalidJson == [valid |-> FALSE, doc |-> NoDoc]

\* A command line of two paths, the first of a readable file holding d.
RunOn(d) == [argc |-> 3, readable |-> TRUE, json |-> ValidJson(d)]

\* The runs explored beside those over an object with rows: a document that
\* is no object, objects with rows empty or missing (keys other than "rows"
\* are never read, so they vary only here), malformed and unreadable input,
\* one argument too few and one too many.
OtherInputs ==
    {RunOn(OtherDoc)}
    \cup {RunOn(ObjectDoc(h, <<>>, e)) : h \in BOOLEAN, e \in BOOLEAN}
    \cup {[argc |-> 3, readable |-> TRUE, json |-> InvalidJson],
          [argc |-> 3, readable |-> FALSE, json |-> InvalidJson],
          [argc |-> 2, readable |-> TRUE, json |-> InvalidJson],
          [argc |-> 4, readable |-> TRUE, json |-> ValidJson(OtherDoc)]}

\* input is a run over an object whose rows extends acc by at most k rows
\* holding at most n cells in all.
RECURSIVE InputWithRows(_, _, _)
InputWithRows(k, n, acc) ==
    \/ input = RunOn(ObjectDoc(TRUE, acc, FALSE))
    \/ /\ k > 0
       /\ \E r \in RowChoices(n) :
             InputWithRows(k - 1, n - Len(r.cells), Append(acc, r))

----------------------------------------------------------------------------
\* Exceptions and messages.

NoExc == [type |-> "none", msg |-> ""]
SystemExit == [type |-> "SystemExit", msg |-> "1"]
OSError == [type |-> "OSError", msg |-> "[Errno 2] No such file or directory"]
JSONDecodeError ==
    [type |-> "JSONDecodeError", msg |-> "Expecting value: line 1 column 1 (char 0)"]
AttributeError ==
    [type |-> "AttributeError", msg |-> "'list' object has no attribute 'get'"]
TypeError == [type |-> "TypeError", msg |-> "'int' object is not iterable"]
WriteCellError == [type |-> "ValueError", msg |-> "column index (256) not an int in range(256)"]
SaveError == [type |-> "PermissionError", msg |-> "[Errno 13] Permission denied"]
DiskFullError == [type |-> "OSError", msg |-> "[Errno 28] No space left on device"]

\* Variants of the handler: `except BaseException`, and no handler at all.
CatchesBaseException(e) == TRUE
CatchesNothing(e) == FALSE

\* Line 67, `except Exception`: SystemExit derives from BaseException only.
Catches(e) == e.type # "SystemExit"

UsageLine == "Usage: generate_xls.py <input_json> <output_xls>"
NoRowsLine == "Error: No rows in input data"
ErrorLine(e) == "Error: " \o e.msg

\* Variant naming the last row index instead of the count.
ReportsLastIndex(rs) == "Generated XLS with " \o IntStr(Len(rs) - 1) \o " rows"

\* Line 55: the f-string names len(rows).
SuccessLine(rs) == "Generated XLS with " \o IntStr(Len(rs)) \o " rows"

\* Line 30: data.get('rows', []).
DictGet(d) == IF d.hasRows THEN d.rows ELSE <<>>

\* Variant without the emptiness check.
NeverFalsy(rs) == FALSE

\* Line 32: `not rows`.
Falsy(rs) == Len(rs) = 0

\* Variant: a bare open() in place of the with statement.
LeavesOpen(h) == h

\* Leaving the `with` block of lines 27-28 closes f.
WithExit(h) == FALSE

\* Variants: the indices swapped, and the row index dropped.
Transposed(r, c) == <<c, r>>
RowZero(r, c) == <<0, c>>

\* Line 50: the coordinate sheet.write is given.
Coord(r, c) == <<r, c>>

\* What workbook.save(output_xls_path) can do to the output path: write the
\* whole file, fail before creating it, or fail after creating it.
SaveOutcomes == {"complete", "none", "partial"}

----------------------------------------------------------------------------
Init ==
    /\ \/ input \in OtherInputs
       \/ InputWithRows(MaxRows, MaxCells, <<>>)
    /\ pc = "main"
    /\ inTry = FALSE
    /\ exc = NoExc
    /\ failure = "none"
    /\ fOpen = FALSE
    /\ data = NoDoc
    /\ rows = <<>>
    /\ workbook = FALSE
    /\ sheet = <<>>
    /\ row_idx = 0
    /\ col_idx = 0
    /\ writes = <<>>
    /\ saves = 0
    /\ outFile = "none"
    /\ stdout = <<>>
    /\ stderr = <<>>
    /\ exitCode = -1

\* raise e at the current statement.
Raise(e) ==
    /\ exc' = e
    /\ failure' = IF failure = "none" THEN pc ELSE failure
    /\ pc' = "raised"

\* Lines 58-60: wrong argument count.
UsageError ==
    /\ pc = "main"
    /\ input.argc # 3
    /\ stderr' = Append(stderr, UsageLine)
    /\ Raise(SystemExit)
    /\ UNCHANGED <<input, inTry, fOpen, data, rows, workbook, sheet, row_idx,
                   col_idx, writes, saves, outFile, stdout, exitCode>>

\* Lines 62-66: enter the try body and call generate_xls.
EnterTry ==
    /\ pc = "main"
    /\ input.argc = 3
    /\ inTry' = TRUE
    /\ pc' = "open"
    /\ UNCHANGED <<input, exc, failure, fOpen, data, rows, workbook, sheet,
                   row_idx, col_idx, writes, saves, outFile, stdout, stderr,
                   exitCode>>

\* Line 27: open(input_json_path).
OpenInput ==
    /\ pc = "open"
    /\ IF input.readable
       THEN fOpen' = TRUE /\ pc' = "load" /\ UNCHANGED <<exc, failure>>
       ELSE Raise(OSError) /\ UNCHANGED fOpen
    /\ UNCHANGED <<input, inTry, data, rows, workbook, sheet, row_idx, col_idx,
                   writes, saves, outFile, stdout, stderr, exitCode>>

\* Line 28: json.load(f), inside the with block.
JsonLoad ==
    /\ pc = "load"
    /\ IF input.json.valid
       THEN data' = input.json.doc /\ UNCHANGED <<exc, failure>>
       ELSE /\ exc' = JSONDecodeError
            /\ failure' = pc
            /\ UNCHANGED data
    /\ pc' = "with_exit"
    /\ UNCHANGED <<input, inTry, fOpen, rows, workbook, sheet, row_idx, col_idx,
                   writes, saves, outFile, stdout, stderr, exitCode>>

\* Lines 27-28: the with block is left, normally or by the exception.
LeaveWith ==
    /\ pc = "with_exit"
    /\ fOpen' = WithExit(fOpen)
    /\ pc' = IF exc.type = "none" THEN "get_rows" ELSE "raised"
    /\ UNCHANGED <<input, inTry, exc, failure, data, rows, workbook, sheet,
                   row_idx, col_idx, writes, saves, outFile, stdout, stderr,
                   exitCode>>

\* Line 30: rows = data.get('rows', []).
GetRows ==
    /\ pc = "get_rows"
    /\ IF data.kind = "object"
       THEN rows' = DictGet(data) /\ pc' = "check_rows" /\ UNCHANGED <<exc, failure>>
       ELSE Raise(AttributeError) /\ UNCHANGED rows
    /\ UNCHANGED <<input, inTry, fOpen, data, workbook, sheet, row_idx, col_idx,
                   writes, saves, outFile, stdout, stderr, exitCode>>

\* Lines 32-34: no rows.
NoRows ==
    /\ pc = "check_rows"
    /\ Falsy(rows)
    /\ stderr' = Append(stderr, NoRowsLine)
    /\ Raise(SystemExit)
    /\ UNCHANGED <<input, inTry, fOpen, data, rows, workbook, sheet, row_idx,
                   col_idx, writes, saves, outFile, stdout, exitCode>>

\* Lines 37-38: the workbook and its sheet.
CreateWorkbook ==
    /\ pc = "check_rows"
    /\ ~Falsy(rows)
    /\ workbook' = TRUE
    /\ sheet' = <<>>
    /\ row_idx' = 0
    /\ pc' = "for_row"
    /\ UNCHANGED <<input, inTry, exc, failure, fOpen, data, rows, col_idx,
                   writes, saves, outFile, stdout, stderr, exitCode>>

\* Line 41: the outer loop takes the next row, which line 42 can enumerate.
NextRow ==
    /\ pc = "for_row"
    /\ row_idx < Len(rows)
    /\ rows[row_idx + 1].iter
    /\ col_idx' = 0
    /\ pc' = "for_cell"
    /\ UNCHANGED <<input, inTry, exc, failure, fOpen, data, rows, workbook,
                   sheet, row_idx, writes, saves, outFile, stdout, stderr,
                   exitCode>>

\* Line 42: enumerate(row) on a row that is not a sequence.
BadRow ==
    /\ pc = "for_row"
    /\ row_idx < Len(rows)
    /\ ~rows[row_idx + 1].iter
    /\ Raise(TypeError)
    /\ UNCHANGED <<input, inTry, fOpen, data, rows, workbook, sheet, row_idx,
                   col_idx, writes, saves, outFile, stdout, stderr, exitCode>>

\* Variant of WriteCell: workbook.save indented into the loop body.
WriteCellAndSave ==
    /\ pc = "for_cell"
    /\ col_idx < Len(rows[row_idx + 1].cells)
    /\ sheet' = (Coord(row_idx, col_idx) :>
                     CellText(rows[row_idx + 1].cells[col_idx + 1])) @@ sheet
    /\ writes' = Append(writes, Coord(row_idx, col_idx))
    /\ col_idx' = col_idx + 1
    /\ saves' = saves + 1
    /\ outFile' = "complete"
    /\ UNCHANGED <<input, pc, inTry, exc, failure, fOpen, data, rows, workbook,
                   row_idx, stdout, stderr, exitCode>>

\* Lines 42-50: one iteration of the inner loop; sheet.write returns.
WriteCell ==
    /\ pc = "for_cell"
    /\ col_idx < Len(rows[row_idx + 1].cells)
    /\ sheet' = (Coord(row_idx, col_idx) :>
                     CellText(rows[row_idx + 1].cells[col_idx + 1])) @@ sheet
    /\ writes' = Append(writes, Coord(row_idx, col_idx))
    /\ col_idx' = col_idx + 1
    /\ UNCHANGED <<input, pc, inTry, exc, failure, fOpen, data, rows, workbook,
                   row_idx, saves, outFile, stdout, stderr, exitCode>>

\* Line 50: sheet.write raises (xlwt rejects the index or the string).
WriteCellFails ==
    /\ pc = "for_cell"
    /\ col_idx < Len(rows[row_idx + 1].cells)
    /\ Raise(WriteCellError)
    /\ UNCHANGED <<input, inTry, fOpen, data, rows, workbook, sheet, row_idx,
                   col_idx, writes, saves, outFile, stdout, stderr, exitCode>>

\* Line 42: the inner loop is exhausted; the outer enumerate advances.
EndRow ==
    /\ pc = "for_cell"
    /\ col_idx = Len(rows[row_idx + 1].cells)
    /\ row_idx' = row_idx + 1
    /\ pc' = "for_row"
    /\ UNCHANGED <<input, inTry, exc, failure, fOpen, data, rows, workbook,
                   sheet, col_idx, writes, saves, outFile, stdout, stderr,
                   exitCode>>

\* Line 41: the outer loop is exhausted.
RowsDone ==
    /\ pc = "for_row"
    /\ row_idx = Len(rows)
    /\ pc' = "save"
    /\ UNCHANGED <<input, inTry, exc, failure, fOpen, data, rows, workbook,
                   sheet, row_idx, col_idx, writes, saves, outFile, stdout,
                   stderr, exitCode>>

\* Line 53: workbook.save(output_xls_path), written straight to the path.
Save ==
    /\ pc = "save"
    /\ saves' = saves + 1
    /\ \E o \in SaveOutcomes :
          /\ outFile' = IF o = "none" THEN outFile ELSE o
          /\ IF o = "complete"
             THEN pc' = "report" /\ UNCHANGED <<exc, failure>>
             ELSE Raise(IF o = "none" THEN SaveError ELSE DiskFullError)
    /\ UNCHANGED <<input, inTry, fOpen, data, rows, workbook, sheet, row_idx,
                   col_idx, writes, stdout, stderr, exitCode>>

\* Line 55: the confirmation message.
Report ==
    /\ pc = "report"
    /\ stdout' = Append(stdout, SuccessLine(rows))
    /\ pc' = "return"
    /\ UNCHANGED <<input, inTry, exc, failure, fOpen, data, rows, workbook,
                   sheet, row_idx, col_idx, writes, saves, outFile, stderr,
                   exitCode>>

\* generate_xls returns, the try statement and the script end: status 0.
ExitNormally ==
    /\ pc = "return"
    /\ inTry' = FALSE
    /\ exitCode' = 0
    /\ pc' = "done"
    /\ UNCHANGED <<input, exc, failure, fOpen, data, rows, workbook, sheet,
                   row_idx, col_idx, writes, saves, outFile, stdout, stderr>>

\* Lines 67-69: the handler prints the exception and calls sys.exit(1).
Except ==
    /\ pc = "raised"
    /\ inTry
    /\ Catches(exc)
    /\ stderr' = Append(stderr, ErrorLine(exc))
    /\ inTry' = FALSE
    /\ exc' = SystemExit
    /\ UNCHANGED <<input, pc, failure, fOpen, data, rows, workbook, sheet,
                   row_idx, col_idx, writes, saves, outFile, stdout, exitCode>>

\* An exception no handler takes ends the process; SystemExit(1) with status 1.
Exit ==
    /\ pc = "raised"
    /\ ~(inTry /\ Catches(exc))
    /\ inTry' = FALSE
    /\ exitCode' = 1
    /\ pc' = "done"
    /\ UNCHANGED <<input, exc, failure, fOpen, data, rows, workbook, sheet,
                   row_idx, col_idx, writes, saves, outFile, stdout, stderr>>

Next ==
    \/ UsageError
    \/ EnterTry
    \/ OpenInput
    \/ JsonLoad
    \/ LeaveWith
    \/ GetRows
    \/ NoRows
    \/ CreateWorkbook
    \/ NextRow
    \/ BadRow
    \/ WriteCell
    \/ WriteCellFails
    \/ EndRow
    \/ RowsDone
    \/ Save
    \/ Report
    \/ ExitNormally
    \/ Except
    \/ Exit

Spec == Init /\ [][Next]_vars

----------------------------------------------------------------------------
\* Vocabulary of the properties.

Done == pc = "done"
Doc == input.json.doc

\* The run got a document out of the input file.
Parsed == input.argc = 3 /\ input.readable /\ input.json.valid

\* The document is an object whose rows is a non-empty list of lists.
ScalarRows ==
    /\ Parsed
    /\ Doc.kind = "object"
    /\ Doc.hasRows
    /\ Doc.rows # <<>>
    /\ \A i \in 1..Len(Doc.rows) : Doc.rows[i].iter

\* The zero-based coordinates the document supplies.
InputCoords ==
    UNION {{<<i - 1, j - 1>> : j \in 1..Len(Doc.rows[i].cells)} :
              i \in 1..Len(Doc.rows)}

\* The text each scalar of Cells is to appear as.
ExpectedText(v) ==
    CASE v = JNull -> ""
      [] v = JBool(TRUE) -> "True"
      [] v = JInt(12345) -> "12345"
      [] v = JInt(-30) -> "-30"
      [] v = JStr("Alice") -> "Alice"

\* a comes before b in row-major order.
RowMajorBefore(a, b) == a[1] < b[1] \/ (a[1] = b[1] /\ a[2] < b[2])

----------------------------------------------------------------------------
\* C1: when rows is a non-empty list of lists of scalars and the run ends
\* with status 0, the sheet holds at every (r, c) of the input the text of
\* rows[r][c], the empty string for null: each value at its own coordinate,
\* whole.
C1_CellsMatchInput ==
    (Done /\ exitCode = 0 /\ ScalarRows) =>
        \A i \in 1..Len(Doc.rows) : \A j \in 1..Len(Doc.rows[i].cells) :
            /\ <<i - 1, j - 1>> \in DOMAIN sheet
            /\ sheet[<<i - 1, j - 1>>] = ExpectedText(Doc.rows[i].cells[j])

\* A successful run over [[null, 12345], [true]].
C1_Witness ==
    /\ Done
    /\ exitCode = 0
    /\ Doc.rows = <<ListRow(<<JNull, JInt(12345)>>), ListRow(<<JBool(TRUE)>>)>>
    /\ sheet[<<0, 0>>] = ""
    /\ sheet[<<0, 1>>] = "12345"
    /\ sheet[<<1, 0>>] = "True"

\* C2: a document with an empty rows, or without the field, never gets a
\* workbook, a save or an output file, and its run ends with status 1 and the
\* no-rows error on standard error.
C2_EmptyRowsFail ==
    (Parsed /\ Doc.kind = "object" /\ (~Doc.hasRows \/ Doc.rows = <<>>)) =>
        /\ ~workbook
        /\ saves = 0
        /\ outFile = "none"
        /\ Done => (exitCode = 1 /\ stderr = <<NoRowsLine>>)

\* The run over an object with other keys and no rows has ended.
C2_Witness ==
    /\ Done
    /\ Parsed
    /\ Doc.kind = "object"
    /\ ~Doc.hasRows
    /\ Doc.extra
    /\ exitCode = 1
    /\ stderr = <<NoRowsLine>>

\* C3: input that is not JSON ends the run with status 1 and the parser's
\* message on standard error; the output path is never written.
C3_MalformedJsonFails ==
    (input.argc = 3 /\ input.readable /\ ~input.json.valid) =>
        /\ saves = 0
        /\ outFile = "none"
        /\ Done => (exitCode = 1 /\ stderr = <<"Error: " \o JSONDecodeError.msg>>)

\* The run over malformed input has ended, json.load having raised.
C3_Witness ==
    /\ Done
    /\ input.argc = 3
    /\ input.readable
    /\ ~input.json.valid
    /\ failure = "load"
    /\ exitCode = 1

\* C4, as claimed: no run that ends with a non-zero status leaves a partially
\* written file at the output path, a run whose save step fails included.
C4_NoPartialOutputOnFailure ==
    (Done /\ exitCode # 0) => outFile # "partial"

\* C4, amended: a run that ends with a non-zero status leaves the output path
\* untouched unless the failure is that of the save step itself, which may
\* leave a partially written file; it never leaves a complete one.
C4_PartialOnlyFromFailedSave ==
    (Done /\ exitCode # 0) =>
        /\ outFile \in {"none", "partial"}
        /\ failure # "save" => (outFile = "none" /\ saves = 0)
        /\ outFile = "partial" => (failure = "save" /\ saves = 1)

\* A run whose save step failed after creating the file has ended.
C4_Witness ==
    /\ Done
    /\ exitCode = 1
    /\ failure = "save"
    /\ outFile = "partial"
    /\ stderr = <<ErrorLine(DiskFullError)>>

\* C5: every failing run puts exactly one line on standard error and nothing
\* on standard output, ends with a non-zero status and repeats no step; the
\* empty-data exit is not reported again by the top-level handler.
C5_OneErrorLine ==
    /\ Len(stderr) <= 1
    /\ saves <= 1
    /\ failure # "none" => stdout = <<>>
    /\ failure = "check_rows" => stderr = <<NoRowsLine>>
    /\ Done => (failure # "none" <=> exitCode # 0)
    /\ (Done /\ failure # "none") => (Len(stderr) = 1 /\ exitCode = 1)

\* The empty-data exit of generate_xls has ended the process.
C5_Witness ==
    /\ Done
    /\ failure = "check_rows"
    /\ inTry = FALSE
    /\ exc = SystemExit
    /\ stderr = <<NoRowsLine>>
    /\ exitCode = 1

\* C6: a run that ends with status 0 has printed one line naming len(rows) of
\* the input document, and nothing is printed before the save has completed.
C6_RowCountReported ==
    /\ stdout # <<>> => (saves = 1 /\ outFile = "complete")
    /\ (Done /\ exitCode = 0) =>
           stdout = <<"Generated XLS with " \o IntStr(Len(Doc.rows)) \o " rows">>

\* A successful run over three rows.
C6_Witness ==
    /\ Done
    /\ exitCode = 0
    /\ Len(Doc.rows) = 3
    /\ stdout = <<"Generated XLS with 3 rows">>
    /\ outFile = "complete"

\* C7: rows of differing lengths, empty ones included, raise nothing: unless
\* xlwt itself fails, the run ends with status 0, and the coordinates written
\* are exactly those the input supplies, at no time any other.
C7_RaggedRowsNoPadding ==
    ScalarRows =>
        /\ DOMAIN sheet \subseteq InputCoords
        /\ failure \in {"none", "for_cell", "save"}
        /\ (Done /\ failure = "none") =>
               /\ exitCode = 0
               /\ DOMAIN sheet = InputCoords
               /\ {writes[k] : k \in 1..Len(writes)} = InputCoords

\* A successful run over rows of lengths that differ, one of them empty.
C7_Witness ==
    /\ Done
    /\ exitCode = 0
    /\ \E i \in 1..Len(Doc.rows) : Len(Doc.rows[i].cells) = 0
    /\ \E i, j \in 1..Len(Doc.rows) :
          Len(Doc.rows[i].cells) > Len(Doc.rows[j].cells) /\ Len(Doc.rows[j].cells) > 0
    /\ DOMAIN sheet = InputCoords

\* C8: the input handle is closed wherever generate_xls is left, and from the
\* end of the with block on: it is never open once the workbook exists, while
\* a cell is written or while the output is saved.
C8_InputHandleReleased ==
    /\ pc \notin {"load", "with_exit"} => ~fOpen
    /\ (workbook \/ writes # <<>> \/ saves > 0) => ~fOpen

\* The save step is reached, cells written, the handle long closed.
C8_Witness ==
    /\ pc = "save"
    /\ writes # <<>>
    /\ workbook
    /\ ~fOpen

\* C9: parse, workbook, cells, save, in this order: the save step is taken at
\* most once and only when every cell of every row is written, nothing else
\* touches the output path, and a failure before it leaves the path untouched.
C9_PhaseOrder ==
    /\ [](/\ saves <= 1
          /\ workbook => data = Doc /\ Parsed
          /\ writes # <<>> => workbook
          /\ (pc = "save" \/ saves = 1) =>
                 (workbook /\ row_idx = Len(Doc.rows) /\ DOMAIN sheet = InputCoords)
          /\ saves = 0 => outFile = "none"
          /\ failure \notin {"none", "save"} => (saves = 0 /\ outFile = "none"))
    /\ [][outFile' # outFile => (pc = "save" /\ saves = 0 /\ saves' = 1)]_vars

\* A run that failed at the second row, one row written, has ended.
C9_Witness ==
    /\ Done
    /\ failure = "for_row"
    /\ writes # <<>>
    /\ saves = 0
    /\ outFile = "none"
    /\ exitCode = 1

\* C10: the cell loop writes each coordinate at most once, in strictly
\* increasing row-major order, the columns of a row counting up from 0.
C10_RowMajorWriteOnce ==
    /\ \A a, b \in 1..Len(writes) : a < b => RowMajorBefore(writes[a], writes[b])
    /\ \A a \in 1..Len(writes) :
          writes[a][2] =
              IF a > 1 /\ writes[a - 1][1] = writes[a][1] THEN writes[a - 1][2] + 1 ELSE 0
    /\ Cardinality(DOMAIN sheet) = Len(writes)

\* Three cells written, over two rows.
C10_Witness ==
    /\ Len(writes) = 3
    /\ writes[1][1] = writes[2][1]
    /\ writes[2][1] # writes[3][1]
    /\ pc = "save"

====
